---- MODULE Spec2Model ----
(***************************************************************************)
(* Granular-synthesis engine of src/CURRENT_ThinkingLFESolutions.cpp:      *)
(* the render callback (function_callback_audio), the grain scheduler      *)
(* (function_process_grain, initialize_grain), the setup dialogue of       *)
(* playAudioFile and the live control loop (flive_control_monitor), with   *)
(* the sequence parser (function_sequence_parse) as a pure operator.       *)
(*                                                                         *)
(* Text is a sequence of one-character strings.  Floating-point parameters *)
(* are kept as exact hundredths (0.5f is 50, a travel factor 0.9f is 90).  *)
(***************************************************************************)
EXTENDS Integers, Sequences, FiniteSets, TLC

\* ------------------------------------------------------------------------
\* Bounds of the model
\* ------------------------------------------------------------------------
\* longest text given to the parser in SpecParse
MaxLen == 4
\* the concurrency cap of function_process_grain (the literal 8 at line 1201), scaled
kMaxActiveGrains == 2
\* max_density_cloud_grain (128 at line 570), scaled
PoolSize == 3
\* frames_total of the loaded recording
TotalFrames == 2000
\* live commands the control loop accepts in one run
MaxCmds == 1
\* g_test_frames_per_channel (24000) and g_test_silence_frames (4800), scaled
TestToneFrames == 512
TestSilenceFrames == 256
\* global_AudioFileData.channels_file: the source is stereo
channels_file == 2

\* ------------------------------------------------------------------------
\* Program constants
\* ------------------------------------------------------------------------
kGrainLengthMin == 256
kGrainLengthMax == 8192
kJitterMax == 2000
kMultiplierMin == 10
kMultiplierMax == 200
kVariationMax == 50
kMinGrainFrames == 64
kUint16 == 65536
\* the entries of garray_frames_envelope (line 597)
kframes_envelope == 1024
\* g_test_phase.assign(6, 0.0f)
kTestPhaseSize == 6
\* the channel shift, which nothing sets (line 210)
g_channel_offset == 0
kInitGrainLength == 2048
kInitJitter == 1000
kInitMultiplier == 50
kInitTravelMin == 90
kInitTravelMax == 110

\* ------------------------------------------------------------------------
\* Text and std::stoi
\* ------------------------------------------------------------------------
Digits == {"0", "1", "2", "3", "4", "5", "6", "7", "8", "9"}

DigitVal(c) ==
    CASE c = "0" -> 0 [] c = "1" -> 1 [] c = "2" -> 2 [] c = "3" -> 3
      [] c = "4" -> 4 [] c = "5" -> 5 [] c = "6" -> 6 [] c = "7" -> 7
      [] c = "8" -> 8 [] c = "9" -> 9

\* number of digits of s from position i on
RECURSIVE DigitRun(_, _)
DigitRun(s, i) ==
    IF i <= Len(s) /\ s[i] \in Digits THEN 1 + DigitRun(s, i + 1) ELSE 0

\* value of the digit string d, most significant digit first
RECURSIVE DigitsValue(_)
DigitsValue(d) ==
    IF d = <<>> THEN 0
    ELSE 10 * DigitsValue(SubSeq(d, 1, Len(d) - 1)) + DigitVal(d[Len(d)])

\* std::stoi: an optional sign, then the longest run of digits; what follows
\* the digits is ignored; no digit at all throws std::invalid_argument.
\* (Values are far below INT_MAX for the texts used, so std::out_of_range
\* does not arise.)
stoi(s) ==
    LET sg == IF Len(s) > 0 /\ s[1] \in {"+", "-"} THEN 1 ELSE 0
        n  == DigitRun(s, sg + 1)
        v  == DigitsValue(SubSeq(s, sg + 1, sg + n))
    IN  IF n = 0 THEN [ok |-> FALSE, val |-> 0]
        ELSE [ok |-> TRUE, val |-> IF sg = 1 /\ s[1] = "-" THEN 0 - v ELSE v]

\* `stream >> token`: the whitespace-separated words of s from position i on,
\* cur being the word read so far
RECURSIVE SplitTokens(_, _, _)
SplitTokens(s, i, cur) ==
    IF i > Len(s) THEN (IF cur = <<>> THEN <<>> ELSE <<cur>>)
    ELSE IF s[i] = " "
         THEN (IF cur = <<>> THEN SplitTokens(s, i + 1, <<>>)
               ELSE <<cur>> \o SplitTokens(s, i + 1, <<>>))
         ELSE SplitTokens(s, i + 1, Append(cur, s[i]))

\* token.find('*'): the first position of '*', 0 for npos
RECURSIVE FindStar(_, _)
FindStar(tok, i) ==
    IF i > Len(tok) THEN 0
    ELSE IF tok[i] = "*" THEN i ELSE FindStar(tok, i + 1)

\* the loop run with i <= stay_grain
Repeat_OneMore(object_ch, stay_grain) ==
    IF stay_grain < 0 THEN <<>> ELSE [i \in 1..(stay_grain + 1) |-> object_ch]

\* the loop `for (int i = 0; i < stay_grain; ++i) push_back(object_ch)`
Repeat(object_ch, stay_grain) ==
    IF stay_grain <= 0 THEN <<>> ELSE [i \in 1..stay_grain |-> object_ch]

ParseThrow == [ok |-> FALSE, seq |-> <<>>]

\* one iteration of the parser's while loop: what the token appends, or a throw
ParseToken(token) ==
    LET pos_star == FindStar(token, 1) IN
    IF token = <<"x">> THEN [ok |-> TRUE, seq |-> <<-1>>]
    ELSE IF pos_star # 0
    THEN LET token_ch   == SubSeq(token, 1, pos_star - 1)
             stay_grain == stoi(SubSeq(token, pos_star + 1, Len(token)))
             object_ch  == IF token_ch = <<"x">> THEN [ok |-> TRUE, val |-> -1]
                           ELSE stoi(token_ch)
         IN  IF ~stay_grain.ok \/ ~object_ch.ok THEN ParseThrow
             ELSE [ok |-> TRUE, seq |-> Repeat(object_ch.val, stay_grain.val)]
    ELSE LET object_ch == stoi(token)
         IN  IF ~object_ch.ok THEN ParseThrow
             ELSE [ok |-> TRUE, seq |-> <<object_ch.val>>]

RECURSIVE ParseTokens(_)
ParseTokens(toks) ==
    IF toks = <<>> THEN [ok |-> TRUE, seq |-> <<>>]
    ELSE LET head == ParseToken(Head(toks))
             rest == ParseTokens(Tail(toks))
         IN  IF ~head.ok \/ ~rest.ok THEN ParseThrow
             ELSE [ok |-> TRUE, seq |-> head.seq \o rest.seq]

\* function_sequence_parse: the expanded sequence, or ok = FALSE when a
\* std::stoi call throws
function_sequence_parse(istring_sequence) ==
    ParseTokens(SplitTokens(istring_sequence, 1, <<>>))

\* ------------------------------------------------------------------------
\* Inputs
\* ------------------------------------------------------------------------
\* icount_frames the host asks for
FrameCounts == {1024}
\* g_output_channels the device reports
OutputChannelChoices == {0, 3}
\* the three channel numbers typed at the "Object n (channel ...)" prompts
ChannelInputs == {<<2, 3, 1>>, <<4, 0, 2>>}
\* values typed at the grain-length, jitter, density and travel prompts
GrainInputs == {255, 256, 8193}
JitterInputs == {-1, 0, 2001}
MultiplierInputs == {9, 200, 201}
VariationInputs == {-1, 50, 51}
\* what jitterDist(rng) and scaleDist(rng) can return: the ends of the range
JitterDraws(range) == {0 - range, range}
ScaleDraws(lo, hi) == {lo, hi}
\* what a read past the end of g_grain_sequence can return
GarbageTargets == {0, 9}

Text_1_x_3 == <<"1", " ", "x", " ", "3">>
Text_2 == <<"2">>
Text_bad == <<"1", " ", "a">>
Text_none == <<"x", "*", "0">>
\* sequence texts typed at the "Sequence:" prompts
SeqTexts == {Text_1_x_3, Text_2, Text_bad, Text_none}

\* ------------------------------------------------------------------------
\* State
\* ------------------------------------------------------------------------
VARIABLES
    pc,                            \* where the control (main) thread is
    cmds,                          \* live commands accepted so far
    input,                         \* the control thread's local read by std::cin
    cfg_i,                         \* function_anchor_configure: the entry at hand
    is_initial_setup,              \* function_anchor_configure's parameter
    unit_running,                  \* AudioOutputUnitStart / Stop
    garray_channel_anchor,
    g_original_sequence_channels,
    gstatus_mute_toanchors,
    g_status_audio_playback,
    g_output_channels,
    g_grain_sequence,
    g_sequence_position,
    g_use_grain_hopping,
    g_original_sequence_string,
    object_array_grains,
    frames_object_grain,
    count_present_frame,
    active_envelopes_grain,
    g_jitter_range,
    g_interval_multiplier,
    g_travel_factor_min,
    g_travel_factor_max,
    g_run_channel_order_test,
    g_test_frame_cursor,
    present_frame,
    cb,                            \* what the last render callback did
    p_text,                        \* SpecParse: the text to parse
    p_result                       \* SpecParse: what the parser returned

ctlvars == <<pc, cmds, input, cfg_i, is_initial_setup>>
chanvars == <<garray_channel_anchor, g_original_sequence_channels>>
seqvars == <<g_grain_sequence, g_sequence_position, g_use_grain_hopping,
             g_original_sequence_string>>
poolvars == <<object_array_grains, active_envelopes_grain>>
paramvars == <<frames_object_grain, g_jitter_range, g_interval_multiplier,
               g_travel_factor_min, g_travel_factor_max>>
testvars == <<g_run_channel_order_test, g_test_frame_cursor, gstatus_mute_toanchors>>
parsevars == <<p_text, p_result>>
vars == <<ctlvars, unit_running, chanvars, g_status_audio_playback, g_output_channels,
          seqvars, poolvars, count_present_frame, paramvars, testvars,
          present_frame, cb, parsevars>>

Slots == 1..PoolSize

\* a zero-initialised struct_grain (global_ProcessGrain{})
ZeroGrain ==
    [address_start_frame |-> 0, address_present_grain |-> 0, frames_grain |-> 0,
     gain_grain |-> 0, status_callback_grain |-> FALSE, target_object |-> 0]

NoCallback ==
    [icount_frames |-> 0, interval_start_frames |-> 0, attempted |-> FALSE,
     spawned |-> 0, seq_index |-> -1, seq_size |-> 0, processed |-> {},
     anchor_read |-> {}, routed |-> {}]

NotParsed == [ok |-> FALSE, seq |-> <<"not parsed">>]

\* the state when playAudioFile has started the audio unit (line 1895):
\* the channel test is triggered, the engine fields are set, no grain exists
EngineFields ==
    /\ cmds = 0
    /\ input = 0
    /\ cfg_i = 1
    /\ is_initial_setup = TRUE
    /\ unit_running = TRUE
    /\ garray_channel_anchor = <<0, 1, 2>>
    /\ g_original_sequence_channels = <<0, 1, 2>>
    /\ gstatus_mute_toanchors = FALSE
    /\ g_status_audio_playback = FALSE
    /\ g_grain_sequence = <<>>
    /\ g_sequence_position = 0
    /\ g_use_grain_hopping = FALSE
    /\ g_original_sequence_string = <<>>
    /\ object_array_grains = [i \in Slots |-> ZeroGrain]
    /\ frames_object_grain = kInitGrainLength
    /\ count_present_frame = 0
    /\ active_envelopes_grain = 0
    /\ g_jitter_range = kInitJitter
    /\ g_interval_multiplier = kInitMultiplier
    /\ g_travel_factor_min = kInitTravelMin
    /\ g_travel_factor_max = kInitTravelMax
    /\ g_run_channel_order_test = TRUE
    /\ g_test_frame_cursor = 0
    /\ present_frame = 0
    /\ cb = NoCallback

EngineInit == EngineFields /\ g_output_channels \in OutputChannelChoices

Init ==
    /\ EngineInit
    /\ pc = "wait_test"
    /\ p_text = <<>>
    /\ p_result = NotParsed

\* ------------------------------------------------------------------------
\* Grain scheduler
\* ------------------------------------------------------------------------
\* static_cast<uint32_t>(frames * factor), the factor in hundredths
ScaleFrames(frames, hundredths) == (frames * hundredths) \div 100

\* the first test with > for >=
AtConcurrencyLimit_Above(active) == active > kMaxActiveGrains

\* function_process_grain's first test
AtConcurrencyLimit(active) == active >= kMaxActiveGrains

\* the last free slot instead of the first
FirstFreeSlot_Last(grains) ==
    IF \E i \in Slots : ~grains[i].status_callback_grain
    THEN CHOOSE i \in Slots :
            /\ ~grains[i].status_callback_grain
            /\ \A k \in Slots : ~grains[k].status_callback_grain => i >= k
    ELSE 0

\* the first slot whose status_callback_grain is false, 0 when there is none
FirstFreeSlot(grains) ==
    IF \E i \in Slots : ~grains[i].status_callback_grain
    THEN CHOOSE i \in Slots :
            /\ ~grains[i].status_callback_grain
            /\ \A k \in Slots : ~grains[k].status_callback_grain => i <= k
    ELSE 0

\* start_raw without the test against frames_total - 1
GrainStart_NoUpper(present, jitter) ==
    LET start_raw == present + jitter
    IN  IF start_raw < 0 THEN 0 ELSE start_raw

\* start_raw clamped to [0, frames_total - 1]
GrainStart(present, jitter) ==
    LET start_raw == present + jitter
        low == IF start_raw < 0 THEN 0 ELSE start_raw
    IN  IF low > TotalFrames - 1 THEN TotalFrames - 1 ELSE low

\* field_frames_grain: scaled, at least 64, cut at the end of the source
GrainFrames(base_frames_grain, scale, field_start_frame) ==
    LET scaled == ScaleFrames(base_frames_grain, scale)
        floor64 == IF scaled < kMinGrainFrames THEN kMinGrainFrames ELSE scaled
    IN  IF field_start_frame + floor64 > TotalFrames
        THEN TotalFrames - field_start_frame
        ELSE floor64

\* whether initialize_grain takes its target from the sequence
UsesSequence(hopping, seq) == hopping /\ seq # <<>>

\* g_grain_sequence[g_sequence_position]; past the end the read is undefined
\* behaviour and returns garbage
SequenceRead(seq, pos, garbage) ==
    IF pos < Len(seq) THEN seq[pos + 1] ELSE garbage

\* the cursor moved by every spawn
NextSequencePosition_Always(hopping, seq, pos) ==
    IF seq # <<>> THEN (pos + 1) % Len(seq) ELSE pos + 1

\* g_sequence_position after initialize_grain
NextSequencePosition(hopping, seq, pos) ==
    IF UsesSequence(hopping, seq) THEN (pos + 1) % Len(seq) ELSE pos

\* the slot as initialize_grain leaves it
initialize_grain(start, frames, hopping, seq, pos, garbage) ==
    [address_start_frame |-> start,
     address_present_grain |-> 0,
     frames_grain |-> frames,
     gain_grain |-> 1,
     status_callback_grain |-> TRUE,
     target_object |-> IF UsesSequence(hopping, seq)
                       THEN SequenceRead(seq, pos, garbage) ELSE -2]

\* ++global_ProcessGrain.active_envelopes_grain (line 1274)
ActiveAfterSpawn(active) == active + 1

\* a refused spawn that moves the sequence cursor all the same
function_process_grain_Consuming(grains, active, jitter, scale, garbage) ==
    LET slot == FirstFreeSlot(grains)
        start == GrainStart(present_frame, jitter)
        frames == GrainFrames(frames_object_grain, scale, start)
    IN  IF AtConcurrencyLimit(active) \/ slot = 0
        THEN [grains |-> grains, active |-> active,
              position |-> NextSequencePosition(g_use_grain_hopping, g_grain_sequence,
                                                g_sequence_position),
              spawned |-> 0]
        ELSE [grains |-> [grains EXCEPT ![slot] =
                            initialize_grain(start, frames, g_use_grain_hopping,
                                             g_grain_sequence, g_sequence_position,
                                             garbage)],
              active |-> ActiveAfterSpawn(active),
              position |-> NextSequencePosition(g_use_grain_hopping, g_grain_sequence,
                                                g_sequence_position),
              spawned |-> slot]

\* function_process_grain: the pool, the count, the cursor and the slot taken
\* (0 when the spawn is refused)
function_process_grain(grains, active, jitter, scale, garbage) ==
    LET slot == FirstFreeSlot(grains)
        start == GrainStart(present_frame, jitter)
        frames == GrainFrames(frames_object_grain, scale, start)
    IN  IF AtConcurrencyLimit(active) \/ slot = 0
        THEN [grains |-> grains, active |-> active,
              position |-> g_sequence_position, spawned |-> 0]
        ELSE [grains |-> [grains EXCEPT ![slot] =
                            initialize_grain(start, frames, g_use_grain_hopping,
                                             g_grain_sequence, g_sequence_position,
                                             garbage)],
              active |-> ActiveAfterSpawn(active),
              position |-> NextSequencePosition(g_use_grain_hopping, g_grain_sequence,
                                                g_sequence_position),
              spawned |-> slot]

\* ------------------------------------------------------------------------
\* Render callback
\* ------------------------------------------------------------------------
\* interval_start_frames (line 1333)
IntervalStartFrames(frames, multiplier) == ScaleFrames(frames, multiplier)

\* the test with > for >=
TriggerReached_Above(counted, interval) == counted > interval

\* the test that lets the callback call function_process_grain (line 1335)
TriggerReached(counted, interval) == counted >= interval

\* the grain loop guarded by the playback flag alone
GrainsRun_PastEnd(playback, callback_start_fr) == playback

\* the guard of the grain loop (line 1382)
GrainsRun(playback, callback_start_fr) ==
    playback /\ callback_start_fr < TotalFrames

\* the guard of the base layer, which moves the playback cursor (line 1354)
BaseLayerRuns(test, playback) == ~test /\ playback

\* the looping variant: the cursor returns to 0 at the end of the source
AdvanceCursor_Loop(callback_start_fr, icount_frames) ==
    IF callback_start_fr + icount_frames < TotalFrames
    THEN callback_start_fr + icount_frames ELSE 0

\* present_frame after the base layer (line 1368)
AdvanceCursor(callback_start_fr, icount_frames) ==
    IF callback_start_fr + icount_frames < TotalFrames
    THEN callback_start_fr + icount_frames ELSE TotalFrames

\* the playhead moves but the slot is never released
AdvanceGrain_NoRelease(g, icount_frames) ==
    LET frames_grain_ahead == g.frames_grain - g.address_present_grain
        frames_grain_process == IF icount_frames < frames_grain_ahead
                                THEN icount_frames ELSE frames_grain_ahead
    IN  [g EXCEPT !.address_present_grain = @ + frames_grain_process]

\* the playhead moved by the whole callback, not by what is left of the grain
AdvanceGrain_Whole(g, icount_frames) ==
    LET now == g.address_present_grain + icount_frames
    IN  [g EXCEPT !.address_present_grain = now,
                  !.status_callback_grain = ~(now >= g.frames_grain)]

\* one active grain through the grain loop: lines 1387, 1397, 1504-1509
AdvanceGrain(g, icount_frames) ==
    LET frames_grain_ahead == g.frames_grain - g.address_present_grain
        frames_grain_process == IF icount_frames < frames_grain_ahead
                                THEN icount_frames ELSE frames_grain_ahead
        now == g.address_present_grain + frames_grain_process
    IN  [g EXCEPT !.address_present_grain = now,
                  !.status_callback_grain = ~(now >= g.frames_grain)]

ProcessGrains(grains, icount_frames) ==
    [i \in Slots |-> IF grains[i].status_callback_grain
                     THEN AdvanceGrain(grains[i], icount_frames)
                     ELSE grains[i]]

\* the slots the grain loop deactivated, one decrement each
Released(before, after) ==
    {i \in Slots : before[i].status_callback_grain /\ ~after[i].status_callback_grain}

\* the router matching targets against the current assignment instead of the
\* snapshot
AnchorIndex_ByCurrent(target, original) ==
    IF target = garray_channel_anchor[1] + 1 THEN 1
    ELSE IF target = garray_channel_anchor[2] + 1 THEN 2
    ELSE IF target = garray_channel_anchor[3] + 1 THEN 3
    ELSE IF target = 1 THEN 1
    ELSE IF target = 2 THEN 2
    ELSE IF target = 3 THEN 3
    ELSE 0

\* which garray_channel_anchor entry the router reads for a target (lines
\* 1458-1473), 0 for the direct mapping target - 1
AnchorIndex(target, original) ==
    IF target = original[1] + 1 THEN 1
    ELSE IF target = original[2] + 1 THEN 2
    ELSE IF target = original[3] + 1 THEN 3
    ELSE IF target = 1 THEN 1
    ELSE IF target = 2 THEN 2
    ELSE IF target = 3 THEN 3
    ELSE 0

\* the garray_channel_anchor values the grain loop reads
AnchorReads(grains) ==
    {garray_channel_anchor[AnchorIndex(grains[i].target_object,
                                       g_original_sequence_channels)] :
        i \in {k \in Slots :
                 /\ grains[k].status_callback_grain
                 /\ grains[k].target_object \notin {-1, -2}
                 /\ AnchorIndex(grains[k].target_object,
                                g_original_sequence_channels) # 0}}

\* a UInt32 as its two 16-bit halves: static_cast<UInt32> of an int
UInt32Of(n) == [hi |-> (n \div kUint16) % kUint16, lo |-> n % kUint16]

\* UInt32 addition
AddUInt32(a, b) ==
    [hi |-> (a.hi + b.hi + (a.lo + b.lo) \div kUint16) % kUint16,
     lo |-> (a.lo + b.lo) % kUint16]

\* static_cast<UInt32>(element_grain.target_object - 1) (line 1472)
DirectChannel(target) == UInt32Of(target - 1)

\* target_ch of the router (lines 1455-1473)
target_ch(target) ==
    IF AnchorIndex(target, g_original_sequence_channels) # 0
    THEN UInt32Of(garray_channel_anchor[AnchorIndex(target,
                                                    g_original_sequence_channels)])
    ELSE DirectChannel(target)

\* final_target_ch (line 1484)
final_target_ch(target) == AddUInt32(target_ch(target), UInt32Of(g_channel_offset))

\* the guard of the accumulation with <= for <
InRange_Inclusive(channel, outChannels) ==
    channel.hi = 0 /\ channel.lo <= outChannels

\* the guard of the accumulation, a UInt32 comparison (line 1487)
InRange(channel, outChannels) ==
    channel.hi = 0 /\ channel.lo < outChannels

\* the source channel read without the wraparound
file_ch_NoWrap(ch) == ch

\* file_ch: the source channel whose sample goes to a channel (lines 1426, 1494)
file_ch(ch) == ch % channels_file

\* the source channel read for each output channel a grain is accumulated
\* into: that of the output channel for the broadcast target (line 1426), that
\* of target_ch for a routed grain (line 1494)
MixedSources(target, outChannels) ==
    IF target = -1 THEN <<>>
    ELSE IF target = -2 THEN [c \in 0..(outChannels - 1) |-> file_ch(c)]
    ELSE IF InRange(final_target_ch(target), outChannels)
         THEN [c \in {final_target_ch(target).lo} |-> file_ch(target_ch(target).lo)]
         ELSE <<>>

\* the output channels a grain's frame is accumulated into (lines 1419-1500)
MixedChannels(target, outChannels) ==
    IF target = -1 THEN {}
    ELSE IF target = -2 THEN 0..(outChannels - 1)
    ELSE IF InRange(final_target_ch(target), outChannels)
         THEN {final_target_ch(target).lo}
         ELSE {}

\* the index taken one frame ahead
env_idx_OneAhead(playhead, count_frame_process, frames_grain) ==
    LET scaled == ((playhead + count_frame_process + 1) * (kframes_envelope - 1))
                      \div frames_grain
    IN  IF scaled >= kframes_envelope THEN kframes_envelope - 1 ELSE scaled

\* env_idx: the place in frames_gain_envelope read for a frame of a grain
\* (lines 1413-1415)
env_idx(playhead, count_frame_process, frames_grain) ==
    LET scaled == ((playhead + count_frame_process) * (kframes_envelope - 1))
                      \div frames_grain
    IN  IF scaled >= kframes_envelope THEN kframes_envelope - 1 ELSE scaled

\* the frames of a grain the loop of line 1399 goes through (line 1397)
FramesProcessed(g, icount_frames) ==
    IF icount_frames < g.frames_grain - g.address_present_grain
    THEN icount_frames ELSE g.frames_grain - g.address_present_grain

\* what the grain loop does with each active grain that has a frame inside the
\* source (line 1405): its target, the channel the router resolves (none for
\* the silent and the broadcast target), the channels accumulated into with
\* the source channel read for each, the
\* garray_channel_anchor entry of its own number when the target is 1, 2 or
\* 3, the playhead before and the frames gone through
Routed(grains, icount_frames) ==
    {[slot |-> i,
      target |-> grains[i].target_object,
      target_ch |-> IF grains[i].target_object \in {-1, -2} THEN <<>>
                    ELSE target_ch(grains[i].target_object),
      channels |-> MixedChannels(grains[i].target_object, g_output_channels),
      sources |-> MixedSources(grains[i].target_object, g_output_channels),
      own |-> IF grains[i].target_object \in 1..3
              THEN garray_channel_anchor[grains[i].target_object] ELSE -1,
      playhead |-> grains[i].address_present_grain,
      frames |-> FramesProcessed(grains[i], icount_frames)] :
        i \in {k \in Slots :
                 /\ grains[k].status_callback_grain
                 /\ FramesProcessed(grains[k], icount_frames) > 0
                 /\ grains[k].address_start_frame + grains[k].address_present_grain
                        < TotalFrames}}

TestBlock == TestToneFrames + TestSilenceFrames

\* channel_now and within of the test loop (lines 1519-1529)
channel_now(cursor, fr) == (cursor + fr) \div TestBlock
within(cursor, fr) == (cursor + fr) % TestBlock

\* the frames of a callback the test loop writes: those before its break
\* (lines 1517-1527); channel_now does not decrease from one frame to the next
FramesWritten(cursor, icount_frames, channels) ==
    {fr \in 0..(icount_frames - 1) : channel_now(cursor, fr) < channels}

\* whether the phase read at line 1552 is zero, and with it the sample
\* g_test_gain * std::sin(phase): a channel beyond g_test_phase always reads
\* 0.0f, the others read 0.0f at the first frame of their tone and a value in
\* (0, 2 pi] afterwards (lines 1558-1564)
PhaseZero(channel, frame_within) == channel >= kTestPhaseSize \/ frame_within = 0

\* whether the sample the test loop stores for the channel ch at a frame is
\* not zero (lines 1546-1567)
Sounds(ch, cursor, fr) ==
    /\ ch = channel_now(cursor, fr) + g_channel_offset
    /\ within(cursor, fr) < TestToneFrames
    /\ ~PhaseZero(channel_now(cursor, fr), within(cursor, fr))

\* the channels with a sample that is not zero at a frame the loop writes
NonSilent(cursor, fr, channels) ==
    {ch \in 0..(channels - 1) : Sounds(ch, cursor, fr)}

\* whether some frame of this callback lies past the last channel's block
\* (lines 1517-1527)
TestEnds(cursor, icount_frames, channels) ==
    \E fr \in 0..(icount_frames - 1) : (cursor + fr) \div TestBlock >= channels

\* one decrement for the whole callback however many slots it released
ActiveAfterRelease_Once(active, released) ==
    IF released = {} THEN active ELSE active - 1

\* --global_ProcessGrain.active_envelopes_grain, once per released slot
\* (line 1508)
ActiveAfterRelease(active, released) == active - Cardinality(released)

NotSpawned(grains, active) ==
    [grains |-> grains, active |-> active, position |-> g_sequence_position,
     spawned |-> 0]

\* function_callback_audio
Render ==
    /\ unit_running
    /\ \E icount_frames \in FrameCounts,
          jitter \in JitterDraws(g_jitter_range),
          scale \in ScaleDraws(g_travel_factor_min, g_travel_factor_max),
          garbage \in GarbageTargets :
        LET counted == count_present_frame + icount_frames
            interval_start_frames ==
                IntervalStartFrames(frames_object_grain, g_interval_multiplier)
            attempted == TriggerReached(counted, interval_start_frames)
            sp == IF attempted
                  THEN function_process_grain(object_array_grains,
                                              active_envelopes_grain,
                                              jitter, scale, garbage)
                  ELSE NotSpawned(object_array_grains, active_envelopes_grain)
            callback_start_fr == present_frame
            run == GrainsRun(g_status_audio_playback, callback_start_fr)
            after == IF run THEN ProcessGrains(sp.grains, icount_frames) ELSE sp.grains
            test == g_run_channel_order_test /\ g_output_channels > 0
            ends == TestEnds(g_test_frame_cursor, icount_frames, g_output_channels)
            reads == sp.spawned # 0 /\ UsesSequence(g_use_grain_hopping, g_grain_sequence)
        IN  /\ count_present_frame' = IF attempted THEN 0 ELSE counted
            /\ object_array_grains' = after
            /\ active_envelopes_grain' =
                 ActiveAfterRelease(sp.active, Released(sp.grains, after))
            /\ g_sequence_position' = sp.position
            /\ present_frame' =
                 IF BaseLayerRuns(g_run_channel_order_test, g_status_audio_playback)
                 THEN AdvanceCursor(callback_start_fr, icount_frames)
                 ELSE present_frame
            /\ g_run_channel_order_test' =
                 IF test /\ ends THEN FALSE ELSE g_run_channel_order_test
            /\ gstatus_mute_toanchors' =
                 IF test /\ ends THEN TRUE ELSE gstatus_mute_toanchors
            /\ g_test_frame_cursor' =
                 IF test THEN g_test_frame_cursor + icount_frames
                 ELSE g_test_frame_cursor
            /\ cb' = [icount_frames |-> icount_frames,
                      interval_start_frames |-> interval_start_frames,
                      attempted |-> attempted,
                      spawned |-> sp.spawned,
                      seq_index |-> IF reads THEN g_sequence_position ELSE -1,
                      seq_size |-> IF sp.spawned # 0 THEN Len(g_grain_sequence) ELSE 0,
                      processed |-> IF run
                                    THEN {i \in Slots : sp.grains[i].status_callback_grain}
                                    ELSE {},
                      anchor_read |-> IF run THEN AnchorReads(sp.grains) ELSE {},
                      routed |-> IF run THEN Routed(sp.grains, icount_frames) ELSE {}]
    /\ UNCHANGED <<ctlvars, unit_running, chanvars, g_status_audio_playback,
                   g_output_channels, g_grain_sequence, g_use_grain_hopping,
                   g_original_sequence_string, paramvars, parsevars>>

\* ------------------------------------------------------------------------
\* Control thread: setup dialogue and live control loop
\* ------------------------------------------------------------------------
\* an uncaught exception leaves main: std::terminate ends the process
Abort ==
    /\ pc' = "aborted"
    /\ unit_running' = FALSE

\* function_anchor_configure entered (lines 468-473)
EnterConfigure(initial) ==
    /\ is_initial_setup' = initial
    /\ cfg_i' = 1
    /\ IF g_output_channels < 1
       THEN /\ gstatus_mute_toanchors' = FALSE
            /\ pc' = IF initial THEN "setup_pb_off" ELSE "listening"
       ELSE /\ pc' = "cfg_in"
            /\ UNCHANGED gstatus_mute_toanchors
    /\ input' \in ChannelInputs

\* playAudioFile's wait for the startup test (lines 1904-1906), then line 1934
WaitTestDone ==
    /\ pc = "wait_test"
    /\ ~g_run_channel_order_test
    /\ EnterConfigure(TRUE)
    /\ UNCHANGED <<cmds, unit_running, chanvars, g_status_audio_playback,
                   g_output_channels, seqvars, poolvars, count_present_frame,
                   paramvars, g_run_channel_order_test, g_test_frame_cursor,
                   present_frame, cb, parsevars>>

\* std::cin >> garray_channel_anchor[i] (lines 493, 499, 504)
CfgRead ==
    /\ pc = "cfg_in"
    /\ garray_channel_anchor' = [garray_channel_anchor EXCEPT ![cfg_i] = input[cfg_i]]
    /\ pc' = "cfg_dec"
    /\ UNCHANGED <<cmds, input, cfg_i, is_initial_setup, unit_running,
                   g_original_sequence_channels, g_status_audio_playback,
                   g_output_channels, seqvars, poolvars, count_present_frame,
                   paramvars, testvars, present_frame, cb, parsevars>>

\* uint16_t arithmetic of `garray_channel_anchor[i] -= 1`
DecrementAnchor(v) == (v + kUint16 - 1) % kUint16

\* garray_channel_anchor[i] -= 1 (lines 494, 500, 505)
CfgDecrement ==
    /\ pc = "cfg_dec"
    /\ garray_channel_anchor' =
         [garray_channel_anchor EXCEPT ![cfg_i] = DecrementAnchor(@)]
    /\ IF cfg_i < 3
       THEN cfg_i' = cfg_i + 1 /\ pc' = "cfg_in"
       ELSE cfg_i' = 1 /\ pc' = "cfg_val"
    /\ UNCHANGED <<cmds, input, is_initial_setup, unit_running,
                   g_original_sequence_channels, g_status_audio_playback,
                   g_output_channels, seqvars, poolvars, count_present_frame,
                   paramvars, testvars, present_frame, cb, parsevars>>

\* the validation with > for >=
ValidatedAnchor_Inclusive(v, outChannels) == IF v < 0 \/ v > outChannels THEN 0 ELSE v

\* the validation loop's body (lines 510-513)
ValidatedAnchor(v, outChannels) == IF v < 0 \/ v >= outChannels THEN 0 ELSE v

\* one iteration of the validation loop (lines 509-515)
CfgValidate ==
    /\ pc = "cfg_val"
    /\ garray_channel_anchor' =
         [garray_channel_anchor EXCEPT ![cfg_i] = ValidatedAnchor(@, g_output_channels)]
    /\ IF cfg_i < 3
       THEN cfg_i' = cfg_i + 1 /\ pc' = "cfg_val"
       ELSE cfg_i' = 1 /\ pc' = "cfg_fin"
    /\ UNCHANGED <<cmds, input, is_initial_setup, unit_running,
                   g_original_sequence_channels, g_status_audio_playback,
                   g_output_channels, seqvars, poolvars, count_present_frame,
                   paramvars, testvars, present_frame, cb, parsevars>>

\* the snapshot refreshed whatever the flag
OriginalAfterConfigure_Always(initial) == garray_channel_anchor

\* g_original_sequence_channels after the configuration (lines 519-526)
OriginalAfterConfigure(initial) ==
    IF initial THEN garray_channel_anchor ELSE g_original_sequence_channels

\* the loop silences the grains in flight
GrainsAfterReassign_Silenced(grains) ==
    [i \in Slots |-> IF grains[i].status_callback_grain
                     THEN [grains[i] EXCEPT !.gain_grain = 0]
                     ELSE grains[i]]

\* the loop sends the grains in flight to the silent target
GrainsAfterReassign_Muted(grains) ==
    [i \in Slots |-> IF grains[i].status_callback_grain
                     THEN [grains[i] EXCEPT !.target_object = -1]
                     ELSE grains[i]]

\* the pool after the 't' command's loop over the grains (lines 800-808),
\* which only counts the active ones
GrainsAfterReassign(grains) == grains

\* lines 518-528; after a live reassignment the 't' command runs its loop over
\* the grains and returns to the control loop (the translations it prints are
\* output only)
CfgFinish ==
    /\ pc = "cfg_fin"
    /\ g_original_sequence_channels' = OriginalAfterConfigure(is_initial_setup)
    /\ g_status_audio_playback' = TRUE
    /\ pc' = IF is_initial_setup THEN "setup_pb_off" ELSE "listening"
    /\ input' = 0
    /\ object_array_grains' = IF is_initial_setup THEN object_array_grains
                               ELSE GrainsAfterReassign(object_array_grains)
    /\ UNCHANGED <<cmds, cfg_i, is_initial_setup, unit_running,
                   garray_channel_anchor, g_output_channels, seqvars,
                   active_envelopes_grain, count_present_frame, paramvars, testvars,
                   present_frame, cb, parsevars>>

\* playAudioFile line 1936
SetupPlaybackOff ==
    /\ pc = "setup_pb_off"
    /\ g_status_audio_playback' = FALSE
    /\ pc' = "hop_choice"
    /\ UNCHANGED <<cmds, input, cfg_i, is_initial_setup, unit_running, chanvars,
                   g_output_channels, seqvars, poolvars, count_present_frame,
                   paramvars, testvars, present_frame, cb, parsevars>>

\* setupGrainHopping: the y/n answer (lines 412-417, 457-458)
HopChoice ==
    /\ pc = "hop_choice"
    /\ \E yes \in BOOLEAN :
          /\ g_use_grain_hopping' = yes
          /\ pc' = IF yes THEN "hop_seq" ELSE "hop_pb"
    /\ UNCHANGED <<cmds, input, cfg_i, is_initial_setup, unit_running, chanvars,
                   g_status_audio_playback, g_output_channels, g_grain_sequence,
                   g_sequence_position, g_original_sequence_string, poolvars,
                   count_present_frame, paramvars, testvars, present_frame, cb,
                   parsevars>>

\* setupGrainHopping: the sequence is read and parsed (lines 446-452)
HopSequence ==
    /\ pc = "hop_seq"
    /\ \E text \in SeqTexts :
          LET parsed == function_sequence_parse(text) IN
          IF parsed.ok
          THEN /\ g_grain_sequence' = parsed.seq
               /\ g_original_sequence_string' = text
               /\ pc' = "hop_pos"
               /\ UNCHANGED unit_running
          ELSE /\ Abort
               /\ UNCHANGED <<g_grain_sequence, g_original_sequence_string>>
    /\ UNCHANGED <<cmds, input, cfg_i, is_initial_setup, chanvars,
                   g_status_audio_playback, g_output_channels, g_sequence_position,
                   g_use_grain_hopping, poolvars, count_present_frame, paramvars,
                   testvars, present_frame, cb, parsevars>>

\* setupGrainHopping line 454
HopPosition ==
    /\ pc = "hop_pos"
    /\ g_sequence_position' = 0
    /\ pc' = "hop_pb"
    /\ UNCHANGED <<cmds, input, cfg_i, is_initial_setup, unit_running, chanvars,
                   g_status_audio_playback, g_output_channels, g_grain_sequence,
                   g_use_grain_hopping, g_original_sequence_string, poolvars,
                   count_present_frame, paramvars, testvars, present_frame, cb,
                   parsevars>>

\* setupGrainHopping line 463; the control loop is entered
HopPlaybackOn ==
    /\ pc = "hop_pb"
    /\ g_status_audio_playback' = TRUE
    /\ pc' = "listening"
    /\ UNCHANGED <<cmds, input, cfg_i, is_initial_setup, unit_running, chanvars,
                   g_output_channels, seqvars, poolvars, count_present_frame,
                   paramvars, testvars, present_frame, cb, parsevars>>

\* the loop takes a key while commands remain
Accepting == pc = "listening" /\ cmds < MaxCmds

\* ' ': the unit is stopped, the test triggered, the unit started (lines 729-743)
CmdSpace ==
    /\ Accepting
    /\ cmds' = cmds + 1
    /\ g_status_audio_playback' = FALSE
    /\ g_run_channel_order_test' = TRUE
    /\ g_test_frame_cursor' = 0
    /\ gstatus_mute_toanchors' = FALSE
    /\ unit_running' = TRUE
    /\ pc' = "sp_wait"
    /\ UNCHANGED <<input, cfg_i, is_initial_setup, chanvars, g_output_channels,
                   seqvars, poolvars, count_present_frame, paramvars, present_frame,
                   cb, parsevars>>

\* the polled wait (lines 747-759)
SpaceWaitDone ==
    /\ pc = "sp_wait"
    /\ ~g_run_channel_order_test
    /\ pc' = "sp_pb_off"
    /\ UNCHANGED <<cmds, input, cfg_i, is_initial_setup, unit_running, chanvars,
                   g_status_audio_playback, g_output_channels, seqvars, poolvars,
                   count_present_frame, paramvars, testvars, present_frame, cb,
                   parsevars>>

\* line 767
SpacePlaybackOff ==
    /\ pc = "sp_pb_off"
    /\ g_status_audio_playback' = FALSE
    /\ pc' = "sp_pb_on"
    /\ UNCHANGED <<cmds, input, cfg_i, is_initial_setup, unit_running, chanvars,
                   g_output_channels, seqvars, poolvars, count_present_frame,
                   paramvars, testvars, present_frame, cb, parsevars>>

\* lines 773-774
SpacePlaybackOn ==
    /\ pc = "sp_pb_on"
    /\ g_status_audio_playback' = TRUE
    /\ unit_running' = TRUE
    /\ pc' = "listening"
    /\ UNCHANGED <<cmds, input, cfg_i, is_initial_setup, chanvars,
                   g_output_channels, seqvars, poolvars, count_present_frame,
                   paramvars, testvars, present_frame, cb, parsevars>>

\* 't': function_anchor_configure(g_output_channels, false) (lines 779-792)
CmdT ==
    /\ Accepting
    /\ cmds' = cmds + 1
    /\ EnterConfigure(FALSE)
    /\ UNCHANGED <<unit_running, chanvars, g_status_audio_playback,
                   g_output_channels, seqvars, poolvars, count_present_frame,
                   paramvars, g_run_channel_order_test, g_test_frame_cursor,
                   present_frame, cb, parsevars>>

\* 'h': a line is read; when it is not empty it is parsed and installed
\* (lines 926-943)
CmdH ==
    /\ Accepting
    /\ cmds' = cmds + 1
    /\ \E text \in SeqTexts \cup {<<>>} :
          LET parsed == function_sequence_parse(text) IN
          IF text = <<>>
          THEN /\ pc' = "listening"
               /\ UNCHANGED <<unit_running, g_grain_sequence,
                              g_original_sequence_string>>
          ELSE IF parsed.ok
          THEN /\ g_grain_sequence' = parsed.seq
               /\ g_original_sequence_string' = text
               /\ pc' = "h_pos"
               /\ UNCHANGED unit_running
          ELSE /\ Abort
               /\ UNCHANGED <<g_grain_sequence, g_original_sequence_string>>
    /\ UNCHANGED <<input, cfg_i, is_initial_setup, chanvars, g_status_audio_playback,
                   g_output_channels, g_sequence_position, g_use_grain_hopping,
                   poolvars, count_present_frame, paramvars, testvars, present_frame,
                   cb, parsevars>>

\* the cursor reset by every replacement
PositionAfterReplace_Always(pos, seq) == 0

\* the cursor after a replacement (lines 946-948)
PositionAfterReplace(pos, seq) == IF pos >= Len(seq) THEN 0 ELSE pos

HPosition ==
    /\ pc = "h_pos"
    /\ g_sequence_position' = PositionAfterReplace(g_sequence_position, g_grain_sequence)
    /\ pc' = "listening"
    /\ UNCHANGED <<cmds, input, cfg_i, is_initial_setup, unit_running, chanvars,
                   g_status_audio_playback, g_output_channels, g_grain_sequence,
                   g_use_grain_hopping, g_original_sequence_string, poolvars,
                   count_present_frame, paramvars, testvars, present_frame, cb,
                   parsevars>>

\* a parameter command: the key, then std::cin >> into the local
ReadParameter(choices, next) ==
    /\ Accepting
    /\ cmds' = cmds + 1
    /\ \E v \in choices : input' = v
    /\ pc' = next
    /\ UNCHANGED <<cfg_i, is_initial_setup, unit_running, chanvars,
                   g_status_audio_playback, g_output_channels, seqvars, poolvars,
                   count_present_frame, paramvars, testvars, present_frame, cb,
                   parsevars>>

\* 'g' (lines 959-971), 'j' (982-988), 'd' (1001-1008), 'p' (1028-1035)
CmdG == ReadParameter(GrainInputs, "g_chk")
CmdJ == ReadParameter(JitterInputs, "j_chk")
CmdD == ReadParameter(MultiplierInputs, "d_chk")
CmdP == ReadParameter(VariationInputs, "p_chk")

\* the lower bound of the grain length made exclusive
GrainLengthOk_Exclusive(v) == v > kGrainLengthMin /\ v <= kGrainLengthMax

\* the range tests of the four setters (lines 973, 990, 1010, 1037)
GrainLengthOk(v) == v >= kGrainLengthMin /\ v <= kGrainLengthMax
JitterOk(v) == v >= 0 /\ v <= kJitterMax
MultiplierOk(v) == v >= kMultiplierMin /\ v <= kMultiplierMax
VariationOk(v) == v >= 0 /\ v <= kVariationMax

CtlRest == <<cmds, cfg_i, is_initial_setup, unit_running, chanvars,
             g_status_audio_playback, g_output_channels, seqvars, poolvars,
             count_present_frame, testvars, present_frame, cb, parsevars>>

\* lines 973-978
GCheck ==
    /\ pc = "g_chk"
    /\ frames_object_grain' = IF GrainLengthOk(input) THEN input ELSE frames_object_grain
    /\ input' = 0
    /\ pc' = "listening"
    /\ UNCHANGED <<CtlRest, g_jitter_range, g_interval_multiplier,
                   g_travel_factor_min, g_travel_factor_max>>

\* lines 990-998
JCheck ==
    /\ pc = "j_chk"
    /\ g_jitter_range' = IF JitterOk(input) THEN input ELSE g_jitter_range
    /\ input' = 0
    /\ pc' = "listening"
    /\ UNCHANGED <<CtlRest, frames_object_grain, g_interval_multiplier,
                   g_travel_factor_min, g_travel_factor_max>>

\* lines 1010-1025
DCheck ==
    /\ pc = "d_chk"
    /\ g_interval_multiplier' = IF MultiplierOk(input) THEN input
                                ELSE g_interval_multiplier
    /\ input' = 0
    /\ pc' = "listening"
    /\ UNCHANGED <<CtlRest, frames_object_grain, g_jitter_range,
                   g_travel_factor_min, g_travel_factor_max>>

\* lines 1037-1039: the range test and the first of the two writes
PCheck ==
    /\ pc = "p_chk"
    /\ IF VariationOk(input)
       THEN /\ g_travel_factor_min' = 100 - input
            /\ pc' = "p_max"
            /\ UNCHANGED input
       ELSE /\ pc' = "listening"
            /\ input' = 0
            /\ UNCHANGED g_travel_factor_min
    /\ UNCHANGED <<CtlRest, frames_object_grain, g_jitter_range,
                   g_interval_multiplier, g_travel_factor_max>>

\* line 1040
PMax ==
    /\ pc = "p_max"
    /\ g_travel_factor_max' = 100 + input
    /\ input' = 0
    /\ pc' = "listening"
    /\ UNCHANGED <<CtlRest, frames_object_grain, g_jitter_range,
                   g_interval_multiplier, g_travel_factor_min>>

Setup ==
    \/ WaitTestDone \/ CfgRead \/ CfgDecrement \/ CfgValidate \/ CfgFinish
    \/ SetupPlaybackOff \/ HopChoice \/ HopSequence \/ HopPosition \/ HopPlaybackOn

Command ==
    \/ CmdSpace \/ CmdT \/ CmdH \/ CmdG \/ CmdJ \/ CmdD \/ CmdP

Continue ==
    \/ SpaceWaitDone \/ SpacePlaybackOff \/ SpacePlaybackOn \/ HPosition
    \/ GCheck \/ JCheck \/ DCheck \/ PCheck \/ PMax

Next == Render \/ Setup \/ Command \/ Continue

Spec == Init /\ [][Next]_vars

\* the control thread makes progress through the setup dialogue and through a
\* command it has begun; the host keeps invoking the callback while the unit runs
SpecLive ==
    /\ Init
    /\ [][Next]_vars
    /\ WF_vars(Render)
    /\ WF_vars(Setup)
    /\ WF_vars(Continue)

\* ------------------------------------------------------------------------
\* The parser alone: every text up to MaxLen characters, and the example of
\* function_print_vector
\* ------------------------------------------------------------------------
Alphabet == {"0", "1", "2", "x", "*", " ", "a", "-"}

Text_example ==
    <<"1", " ", "2", " ", "3", "*", "5", " ", "x", " ", "2", "*", "7", " ",
      "x", "*", "3">>

ParseTexts ==
    UNION {[1..n -> Alphabet] : n \in 0..MaxLen} \cup {Text_example}

InitParse ==
    /\ EngineInit
    /\ g_output_channels = 3
    /\ pc = "parse"
    /\ p_text \in ParseTexts
    /\ p_result = NotParsed

\* function_print_vector's call (line 301), for any text
ParseStep ==
    /\ pc = "parse"
    /\ p_result' = function_sequence_parse(p_text)
    /\ pc' = "parsed"
    /\ UNCHANGED <<cmds, input, cfg_i, is_initial_setup, unit_running, chanvars,
                   g_status_audio_playback, g_output_channels, seqvars, poolvars,
                   count_present_frame, paramvars, testvars, present_frame, cb,
                   p_text>>

NextParse == ParseStep

SpecParse == InitParse /\ [][NextParse]_vars

\* ------------------------------------------------------------------------
\* Properties
\* ------------------------------------------------------------------------
\* a step of the control thread moves its position, counts a command or moves
\* the configuration index; a step that changes something else only is a render
\* callback
ControlStep == <<pc, cmds, cfg_i>>' # <<pc, cmds, cfg_i>>

RenderStep == <<pc, cmds, cfg_i>>' = <<pc, cmds, cfg_i>>

IsActive(i) == object_array_grains[i].status_callback_grain

ActiveSlots == {i \in Slots : IsActive(i)}

\* C1: the number of active grains never exceeds the concurrency limit, and
\* from a state where it equals the limit no step activates a slot or raises
\* the count: a spawn attempt at the limit is refused
C1_ConcurrencyLimit ==
    /\ active_envelopes_grain <= kMaxActiveGrains
    /\ [][/\ active_envelopes_grain' <= kMaxActiveGrains
          /\ active_envelopes_grain = kMaxActiveGrains =>
                /\ active_envelopes_grain' <= active_envelopes_grain
                /\ \A i \in Slots :
                      object_array_grains'[i].status_callback_grain => IsActive(i)]_vars

\* a callback attempted a spawn at the limit and was refused, a free slot
\* being left in the pool
C1_Witness ==
    /\ cb.attempted
    /\ cb.spawned = 0
    /\ active_envelopes_grain = kMaxActiveGrains
    /\ \E i \in Slots : ~IsActive(i)

\* C2: between callbacks the active count equals the number of slots whose
\* active flag is set
C2_CountMatchesFlags ==
    active_envelopes_grain = Cardinality(ActiveSlots)

\* a callback processed two grains and released both, leaving the pool empty
C2_Witness ==
    /\ cb.processed # {}
    /\ Cardinality(cb.processed) = 2
    /\ active_envelopes_grain = 0
    /\ ActiveSlots = {}

\* the frames a grain still has to play, and the frames of source the playback
\* cursor still has to cross
RemainingFrames(i) ==
    object_array_grains[i].frames_grain - object_array_grains[i].address_present_grain

SourceLeft == TotalFrames - present_frame

EndOfSourceCallback ==
    /\ RenderStep
    /\ present_frame = TotalFrames
    /\ g_status_audio_playback
    /\ ~g_run_channel_order_test

\* the playhead a slot has after a callback of F frames that processes it
PlayheadAfter(i, F) ==
    object_array_grains[i].address_present_grain
        + (IF F < RemainingFrames(i) THEN F ELSE RemainingFrames(i))

C5_SequenceIndexValid ==
    cb.seq_index # -1 => cb.seq_index < cb.seq_size

\* C6, as stated: every garray_channel_anchor entry the callback reads is a
\* channel index of the device
C6_AnchorReadsValidated ==
    \A v \in cb.anchor_read : v >= 0 /\ v < g_output_channels

\* C7: no step of the control thread changes a grain slot or the active count
C7_ControlLeavesPool ==
    [][ControlStep => UNCHANGED poolvars]_vars

\* a live reassignment has run to its end with a grain in flight
C7_Witness ==
    /\ pc = "listening"
    /\ cmds > 0
    /\ ~is_initial_setup
    /\ g_output_channels > 0
    /\ garray_channel_anchor # <<0, 1, 2>>
    /\ \E i \in ActiveSlots : object_array_grains[i].address_present_grain > 0

\* the parameters a setter must leave alone
OtherThanGrainLength ==
    <<g_jitter_range, g_interval_multiplier, g_travel_factor_min, g_travel_factor_max>>

OtherThanJitter ==
    <<frames_object_grain, g_interval_multiplier, g_travel_factor_min,
      g_travel_factor_max>>

OtherThanMultiplier ==
    <<frames_object_grain, g_jitter_range, g_travel_factor_min, g_travel_factor_max>>

OtherThanTravel == <<frames_object_grain, g_jitter_range, g_interval_multiplier>>

\* the callback works from the parameters as they are when it starts
CallbackUsesParameters ==
    /\ cb'.interval_start_frames =
          (frames_object_grain * g_interval_multiplier) \div 100
    /\ cb'.spawned # 0 =>
          LET g == object_array_grains'[cb'.spawned] IN
          /\ \E j \in JitterDraws(g_jitter_range) :
                g.address_start_frame = GrainStart(present_frame, j)
          /\ \E f \in ScaleDraws(g_travel_factor_min, g_travel_factor_max) :
                g.frames_grain =
                   GrainFrames(frames_object_grain, f, g.address_start_frame)

\* C8: a setter given a value outside its bounds leaves the five parameter
\* fields as they are; given a value inside them it stores the value (the travel
\* variation as 1 - v/100 and then 1 + v/100) and touches no other parameter;
\* a callback computes with the parameters of the state it starts in
C8_SettersChecked ==
    [][/\ (pc = "g_chk" /\ ControlStep) =>
             IF input >= kGrainLengthMin /\ input <= kGrainLengthMax
             THEN frames_object_grain' = input /\ UNCHANGED OtherThanGrainLength
             ELSE UNCHANGED paramvars
       /\ (pc = "j_chk" /\ ControlStep) =>
             IF input >= 0 /\ input <= kJitterMax
             THEN g_jitter_range' = input /\ UNCHANGED OtherThanJitter
             ELSE UNCHANGED paramvars
       /\ (pc = "d_chk" /\ ControlStep) =>
             IF input >= kMultiplierMin /\ input <= kMultiplierMax
             THEN g_interval_multiplier' = input /\ UNCHANGED OtherThanMultiplier
             ELSE UNCHANGED paramvars
       /\ (pc = "p_chk" /\ ControlStep) =>
             IF input >= 0 /\ input <= kVariationMax
             THEN /\ g_travel_factor_min' = 100 - input
                  /\ pc' = "p_max"
                  /\ input' = input
                  /\ UNCHANGED <<OtherThanTravel, g_travel_factor_max>>
             ELSE UNCHANGED paramvars /\ pc' = "listening"
       /\ (pc = "p_max" /\ ControlStep) =>
             /\ g_travel_factor_max' = 100 + input
             /\ g_travel_factor_min' = 100 - input
             /\ UNCHANGED OtherThanTravel
       /\ RenderStep => CallbackUsesParameters]_vars

\* the grain length was set to its lower bound and a later callback spawned a
\* grain from it
C8_Witness ==
    /\ pc = "listening"
    /\ cmds > 0
    /\ frames_object_grain = kGrainLengthMin
    /\ cb.interval_start_frames = (kGrainLengthMin * g_interval_multiplier) \div 100
    /\ cb.spawned # 0
    /\ object_array_grains[cb.spawned].frames_grain < kGrainLengthMax \div 16

\* ------------------------------------------------------------------------
\* The pattern grammar, written from its definition: whitespace-separated
\* words, each NUMBER, "x", or TOKEN*COUNT with COUNT a positive integer
\* ------------------------------------------------------------------------
\* the length of the word that starts s
LeadLen(s) ==
    CHOOSE n \in 1..Len(s) :
        /\ \A k \in 1..n : s[k] # " "
        /\ n = Len(s) \/ s[n + 1] = " "

RECURSIVE WordsOf(_)
WordsOf(s) ==
    IF s = <<>> THEN <<>>
    ELSE IF Head(s) = " " THEN WordsOf(Tail(s))
    ELSE <<SubSeq(s, 1, LeadLen(s))>> \o WordsOf(SubSeq(s, LeadLen(s) + 1, Len(s)))

Unsigned(w) == IF w # <<>> /\ w[1] = "-" THEN Tail(w) ELSE w

IsInteger(w) ==
    /\ Unsigned(w) # <<>>
    /\ \A k \in 1..Len(Unsigned(w)) : Unsigned(w)[k] \in Digits

RECURSIVE PlaceSum(_, _)
PlaceSum(d, k) ==
    IF k > Len(d) THEN 0
    ELSE DigitVal(d[k]) * 10 ^ (Len(d) - k) + PlaceSum(d, k + 1)

IntegerOf(w) ==
    IF w[1] = "-" THEN 0 - PlaceSum(Unsigned(w), 1) ELSE PlaceSum(w, 1)

Stars(w) == {k \in 1..Len(w) : w[k] = "*"}

LeftOfStar(w) == SubSeq(w, 1, (CHOOSE k \in Stars(w) : TRUE) - 1)

RightOfStar(w) == SubSeq(w, (CHOOSE k \in Stars(w) : TRUE) + 1, Len(w))

IsRepeatWord(w) ==
    /\ Cardinality(Stars(w)) = 1
    /\ LeftOfStar(w) = <<"x">> \/ IsInteger(LeftOfStar(w))
    /\ IsInteger(RightOfStar(w))
    /\ IntegerOf(RightOfStar(w)) >= 1

WellFormedWord(w) == w = <<"x">> \/ IsInteger(w) \/ IsRepeatWord(w)

TargetOf(w) == IF w = <<"x">> THEN -1 ELSE IntegerOf(w)

\* what a well-formed word stands for
WordExpansion(w) ==
    IF IsRepeatWord(w)
    THEN [i \in 1..IntegerOf(RightOfStar(w)) |-> TargetOf(LeftOfStar(w))]
    ELSE <<TargetOf(w)>>

RECURSIVE Concatenation(_)
Concatenation(words) ==
    IF words = <<>> THEN <<>>
    ELSE WordExpansion(Head(words)) \o Concatenation(Tail(words))

\* singleton words count one each, repeat words their count
RECURSIVE DeclaredLength(_)
DeclaredLength(words) ==
    IF words = <<>> THEN 0
    ELSE (IF IsRepeatWord(Head(words)) THEN IntegerOf(RightOfStar(Head(words)))
          ELSE 1) + DeclaredLength(Tail(words))

WellFormedText(s) ==
    \A k \in 1..Len(WordsOf(s)) : WellFormedWord(WordsOf(s)[k])

\* C9: the parse of a well-formed text is the concatenation, in order, of what
\* its words stand for, as long as the singleton words plus the repeat counts;
\* the example text gives its eighteen targets
C9_ParseExpands ==
    pc = "parsed" =>
        /\ WellFormedText(p_text) =>
              /\ p_result.ok
              /\ p_result.seq = Concatenation(WordsOf(p_text))
              /\ Len(p_result.seq) = DeclaredLength(WordsOf(p_text))
        /\ p_text = Text_example =>
              p_result = [ok |-> TRUE,
                          seq |-> <<1, 2, 3, 3, 3, 3, 3, -1, 2, 2, 2, 2, 2, 2, 2,
                                    -1, -1, -1>>]

\* the example text has been parsed into eighteen targets
C9_Witness ==
    /\ pc = "parsed"
    /\ p_text = Text_example
    /\ WellFormedText(p_text)
    /\ p_result.ok
    /\ Len(p_result.seq) = 18

\* C10, as stated: a text with a word that is not well formed makes the parse
\* fail
C10_InvalidWordFails ==
    (pc = "parsed" /\ ~WellFormedText(p_text)) => ~p_result.ok

\* C11, as stated: no text given to the 'h' command is fatal; whatever the
\* command read, the control loop goes on and the unit keeps running
C11_MalformedTextNonFatal ==
    [][pc = "listening" => (pc' # "aborted" /\ unit_running')]_vars

\* ------------------------------------------------------------------------
\* show_sequence_translations alone: the six translated texts it prints
\* ------------------------------------------------------------------------
DigitChar(d) == CHOOSE c \in Digits : DigitVal(c) = d

\* std::to_string of a non-negative int
RECURSIVE to_string(_)
to_string(n) ==
    IF n < 10 THEN <<DigitChar(n)>>
    ELSE to_string(n \div 10) \o <<DigitChar(n % 10)>>

\* translated.find(first, index_str): the first position from index_str on
\* where first occurs, 0 for npos (positions count from 1)
find(translated, first, index_str) ==
    LET hits == {i \in index_str..(Len(translated) - Len(first) + 1) :
                    SubSeq(translated, i, i + Len(first) - 1) = first}
    IN  IF hits = {} THEN 0 ELSE CHOOSE i \in hits : \A k \in hits : i <= k

\* the while loop of one replacement (lines 677-680)
RECURSIVE ReplaceEvery(_, _, _, _)
ReplaceEvery(translated, first, second, index_str) ==
    LET at == find(translated, first, index_str) IN
    IF at = 0 THEN translated
    ELSE ReplaceEvery(SubSeq(translated, 1, at - 1) \o second
                         \o SubSeq(translated, at + Len(first), Len(translated)),
                      first, second, at + Len(second))

\* the rows of mappings[6][3] as indices into new_objects (lines 652-659)
MappingRows ==
    <<<<1, 2, 3>>, <<1, 3, 2>>, <<2, 1, 3>>, <<2, 3, 1>>, <<3, 1, 2>>, <<3, 2, 1>>>>

\* new_objects[k] (line 651)
NewObject(anchor, k) == anchor[k] + 1

\* the three pairs pushed for an option (lines 668-670)
Replacements(anchor, option) ==
    [k \in 1..3 |->
        [first |-> to_string(anchor[k] + 1),
         second |-> to_string(NewObject(anchor, MappingRows[option][k]))]]

Orders3 == {p \in [1..3 -> 1..3] : \A i, j \in 1..3 : i # j => p[i] # p[j]}

\* what std::sort may leave (lines 672-673): longer first strings come first,
\* pairs of equal length in an order the library chooses
SortedOrders(anchor) ==
    {p \in Orders3 :
        \A i, j \in 1..3 :
            i < j => Len(to_string(anchor[p[i]] + 1)) >= Len(to_string(anchor[p[j]] + 1))}

\* one option's text: the replacements applied one after the other
\* (lines 675-681)
TranslatedOption(text, anchor, option, order) ==
    LET r == Replacements(anchor, option)
        t1 == ReplaceEvery(text, r[order[1]].first, r[order[1]].second, 1)
        t2 == ReplaceEvery(t1, r[order[2]].first, r[order[2]].second, 1)
    IN  ReplaceEvery(t2, r[order[3]].first, r[order[3]].second, 1)

\* the texts show_sequence_translations prints, none when hopping is off or
\* the sequence is empty (line 645)
show_sequence_translations(order) ==
    IF g_use_grain_hopping /\ g_grain_sequence # <<>>
    THEN [option \in 1..6 |->
             TranslatedOption(g_original_sequence_string, garray_channel_anchor,
                              option, order)]
    ELSE <<>>

TranslateAlphabet == {"1", "2", "3", " "}

Text_1_2_3 == <<"1", " ", "2", " ", "3">>

\* texts with a repeat count and a silent token
Text_1_rep_3 == <<"1", "*", "3">>
Text_x_2_rep_2 == <<"x", " ", "2", "*", "2">>

TranslateTexts ==
    UNION {[1..n -> TranslateAlphabet] : n \in 0..MaxLen}
        \cup {Text_1_2_3, Text_1_rep_3, Text_x_2_rep_2}

\* validated assignments of a device with twelve output channels
TranslateAnchors ==
    [1..3 -> {0, 1, 2}] \cup {<<0, 1, 11>>, <<11, 0, 1>>, <<0, 11, 2>>}

InitTranslate ==
    /\ pc = "translate"
    /\ cmds = 0
    /\ input = 0
    /\ cfg_i = 1
    /\ is_initial_setup = FALSE
    /\ unit_running = TRUE
    /\ garray_channel_anchor \in TranslateAnchors
    /\ g_original_sequence_channels = garray_channel_anchor
    /\ gstatus_mute_toanchors = TRUE
    /\ g_status_audio_playback = TRUE
    /\ g_output_channels = 12
    /\ g_original_sequence_string \in TranslateTexts
    /\ g_grain_sequence = function_sequence_parse(g_original_sequence_string).seq
    /\ g_sequence_position = 0
    /\ g_use_grain_hopping = TRUE
    /\ object_array_grains = [i \in Slots |-> ZeroGrain]
    /\ frames_object_grain = kInitGrainLength
    /\ count_present_frame = 0
    /\ active_envelopes_grain = 0
    /\ g_jitter_range = kInitJitter
    /\ g_interval_multiplier = kInitMultiplier
    /\ g_travel_factor_min = kInitTravelMin
    /\ g_travel_factor_max = kInitTravelMax
    /\ g_run_channel_order_test = FALSE
    /\ g_test_frame_cursor = 0
    /\ present_frame = 0
    /\ cb = NoCallback
    /\ p_text = g_original_sequence_string
    /\ p_result = NotParsed

\* the call of show_sequence_translations by the 'h' command (line 933)
TranslateStep ==
    /\ pc = "translate"
    /\ \E order \in SortedOrders(garray_channel_anchor) :
          p_result' = [ok |-> TRUE, seq |-> show_sequence_translations(order)]
    /\ pc' = "translated"
    /\ UNCHANGED <<cmds, input, cfg_i, is_initial_setup, unit_running, chanvars,
                   g_status_audio_playback, g_output_channels, seqvars, poolvars,
                   count_present_frame, paramvars, testvars, present_frame, cb,
                   p_text>>

NextTranslate == TranslateStep

SpecTranslate == InitTranslate /\ [][NextTranslate]_vars

\* the ids of the three objects as the translation writes them
OldIds(anchor) == {to_string(anchor[k] + 1) : k \in 1..3}

\* what a permutation of the ids makes of one run of digits
ImageOfRun(run, anchor, option) ==
    IF run \in OldIds(anchor)
    THEN LET k == CHOOSE i \in 1..3 : run = to_string(anchor[i] + 1)
         IN  to_string(anchor[MappingRows[option][k]] + 1)
    ELSE run

\* the text with every run of digits replaced by its image, all at once
RECURSIVE ApplyPermutation(_, _, _)
ApplyPermutation(text, anchor, option) ==
    IF text = <<>> THEN <<>>
    ELSE IF Head(text) \notin Digits
    THEN <<Head(text)>> \o ApplyPermutation(Tail(text), anchor, option)
    ELSE ImageOfRun(SubSeq(text, 1, DigitRun(text, 1)), anchor, option)
            \o ApplyPermutation(SubSeq(text, DigitRun(text, 1) + 1, Len(text)),
                                anchor, option)

DistinctIds(anchor) == Cardinality(OldIds(anchor)) = 3

Translated == pc = "translated" /\ g_grain_sequence # <<>>

\* C12, as stated: for three distinct ids the six texts are the six
\* permutations of the ids applied to the sequence text, each as a bijection
\* applied at once; rotate-left on "1 2 3" with ids 1, 2, 3 gives "2 3 1"
C12_TranslatePermutes ==
    (Translated /\ DistinctIds(garray_channel_anchor)) =>
        /\ Len(p_result.seq) = 6
        /\ \A option \in 1..6 :
              p_result.seq[option] =
                 ApplyPermutation(g_original_sequence_string, garray_channel_anchor,
                                  option)
        /\ (g_original_sequence_string = Text_1_2_3
              /\ garray_channel_anchor = <<0, 1, 2>>) =>
                 p_result.seq[4] = <<"2", " ", "3", " ", "1">>

\* C13, as stated: in each of the six texts a numeric word that is none of the
\* three ids stands as it stood in the sequence text
C13_OtherNumbersKept ==
    Translated =>
        \A option \in 1..Len(p_result.seq) :
            LET before == WordsOf(g_original_sequence_string)
                after == WordsOf(p_result.seq[option])
            IN  /\ Len(after) = Len(before)
                /\ \A k \in 1..Len(before) :
                      (IsInteger(before[k])
                          /\ before[k] \notin OldIds(garray_channel_anchor))
                         => after[k] = before[k]

\* the control thread is inside function_anchor_configure
Configuring == pc \in {"cfg_in", "cfg_dec", "cfg_val", "cfg_fin"}

\* C14: a step of a live reassignment (the snapshot is to be kept) changes
\* garray_channel_anchor at most: the snapshot, the sequence, its cursor, the
\* playback flag, the parameters and the test state stay as they are; the step
\* that ends the first-time configuration leaves the snapshot equal to the new
\* assignment
C14_ReassignPreserves ==
    [][/\ (ControlStep /\ Configuring /\ ~is_initial_setup) =>
             UNCHANGED <<g_original_sequence_channels, seqvars,
                         g_status_audio_playback, paramvars, testvars,
                         g_output_channels, unit_running>>
       /\ (ControlStep /\ pc = "cfg_fin" /\ is_initial_setup) =>
             /\ g_original_sequence_channels' = garray_channel_anchor'
             /\ garray_channel_anchor' = garray_channel_anchor]_vars

\* a live reassignment has ended with the assignment moved away from the
\* snapshot taken at setup
C14_Witness ==
    /\ pc = "listening"
    /\ cmds > 0
    /\ ~is_initial_setup
    /\ g_output_channels > 0
    /\ garray_channel_anchor # g_original_sequence_channels
    /\ g_original_sequence_channels # <<0, 1, 2>>

\* the object (1, 2 or 3; 0 for none) the router takes a sequence token for
ResolvedObject(token) == AnchorIndex(token, g_original_sequence_channels)

\* token values a sequence may hold
TokenValues == 1..4

\* C15: once the first-time configuration is over, no step changes the object
\* a token resolves to, whatever live reassignments take place
C15_TokenObjectStable ==
    [][~(Configuring /\ is_initial_setup) =>
          \A token \in TokenValues : ResolvedObject(token)' = ResolvedObject(token)]_vars

\* after a live reassignment a token of the setup sequence still has its
\* object, and that object is on another channel than at setup
C15_Witness ==
    /\ pc = "listening"
    /\ cmds > 0
    /\ ~is_initial_setup
    /\ g_use_grain_hopping
    /\ \E k \in 1..Len(g_grain_sequence) :
          /\ g_grain_sequence[k] \in TokenValues
          /\ ResolvedObject(g_grain_sequence[k]) # 0
          /\ garray_channel_anchor[ResolvedObject(g_grain_sequence[k])]
                # g_original_sequence_channels[ResolvedObject(g_grain_sequence[k])]

\* ------------------------------------------------------------------------
\* The sequence replaced after a live reassignment: the control loop listening
\* after the setup dialogue and one 't' command, then the 'h' command
\* ------------------------------------------------------------------------
\* the assignment function_anchor_configure leaves for the three numbers typed
AssignmentAfter(typed, outChannels) ==
    [k \in 1..3 |-> ValidatedAnchor(DecrementAnchor(typed[k]), outChannels)]

\* the sequence texts the setup dialogue accepts
AcceptedTexts == {text \in SeqTexts : function_sequence_parse(text).ok}

\* the state of Spec in which the control loop listens after a setup with the
\* channels `first` and the sequence `text`, and a 't' command with the
\* channels `second`; three callbacks have run the startup test
AfterReassign(first, second, text) ==
    /\ pc = "listening"
    /\ input = 0
    /\ cfg_i = 1
    /\ is_initial_setup = FALSE
    /\ unit_running = TRUE
    /\ g_output_channels = 3
    /\ g_original_sequence_channels = AssignmentAfter(first, 3)
    /\ garray_channel_anchor = AssignmentAfter(second, 3)
    /\ gstatus_mute_toanchors = TRUE
    /\ g_status_audio_playback = TRUE
    /\ g_use_grain_hopping = TRUE
    /\ g_grain_sequence = function_sequence_parse(text).seq
    /\ g_original_sequence_string = text
    /\ g_sequence_position = 0
    /\ object_array_grains =
         [i \in Slots |->
            IF i = 1
            THEN [address_start_frame |-> 0, address_present_grain |-> 0,
                  frames_grain |-> 1843, gain_grain |-> 1,
                  status_callback_grain |-> TRUE, target_object |-> -2]
            ELSE IF i = 2
            THEN [address_start_frame |-> 1000, address_present_grain |-> 0,
                  frames_grain |-> 1000, gain_grain |-> 1,
                  status_callback_grain |-> TRUE, target_object |-> -2]
            ELSE ZeroGrain]
    /\ frames_object_grain = kInitGrainLength
    /\ count_present_frame = 0
    /\ active_envelopes_grain = 2
    /\ g_jitter_range = kInitJitter
    /\ g_interval_multiplier = kInitMultiplier
    /\ g_travel_factor_min = kInitTravelMin
    /\ g_travel_factor_max = kInitTravelMax
    /\ g_run_channel_order_test = FALSE
    /\ g_test_frame_cursor = 3 * 1024
    /\ present_frame = 0
    /\ cb = [NoCallback EXCEPT !.icount_frames = 1024,
                               !.interval_start_frames = 1024,
                               !.attempted = TRUE]
    /\ p_text = <<>>
    /\ p_result = NotParsed

InitReplace ==
    /\ cmds = 0
    /\ \E first \in ChannelInputs, second \in ChannelInputs, text \in AcceptedTexts :
          AfterReassign(first, second, text)

NextReplace == Render \/ CmdH \/ HPosition

SpecReplace == InitReplace /\ [][NextReplace]_vars

\* a step that installs a sequence: setupGrainHopping's or the 'h' command's
\* assignment of g_grain_sequence
InstallsSequence == pc' \in {"hop_pos", "h_pos"} /\ pc \notin {"hop_pos", "h_pos"}

\* C16, as stated: whenever a sequence is installed or replaced, the snapshot
\* g_original_sequence_channels is the assignment garray_channel_anchor of
\* that moment, also after a live reassignment
C16_SnapshotAtInstall ==
    [][InstallsSequence =>
          g_original_sequence_channels' = garray_channel_anchor']_vars

\* C17, as stated: a grain whose target is the object id k in 1..3 is resolved
\* to the channel garray_channel_anchor[k] holds when the callback routes it,
\* whatever the assignment made by setup and live reassignment
C17_ObjectToOwnChannel ==
    \A r \in cb.routed :
        r.target \in 1..3 => r.target_ch = UInt32Of(r.own)

\* C18: every channel a callback accumulates a grain into is a channel of the
\* device, and a grain whose resolved channel is not one is left out of the mix
\* while its playhead moves by the frames gone through
C18_MixWithinChannels ==
    \A r \in cb.routed :
        /\ r.channels \subseteq 0..(g_output_channels - 1)
        /\ object_array_grains[r.slot].address_present_grain = r.playhead + r.frames

\* a callback has gone through a grain with target 0, whose channel wraps to
\* the top of UInt32, and through none of the device's channels for it
C18_Witness ==
    \E r \in cb.routed :
        /\ r.target = 0
        /\ r.target_ch = [hi |-> kUint16 - 1, lo |-> kUint16 - 1]
        /\ r.channels = {}
        /\ r.frames > 0
        /\ object_array_grains[r.slot].address_present_grain > r.playhead

\* ------------------------------------------------------------------------
\* The channel test alone: the callbacks from triggerChannelOrderTest on while
\* the control thread waits at line 1904, for devices of several sizes
\* ------------------------------------------------------------------------
TestChannelChoices == {1, 2, 3, 6, 7, 8}

InitTest ==
    /\ EngineFields
    /\ g_output_channels \in TestChannelChoices
    /\ pc = "wait_test"
    /\ p_text = <<>>
    /\ p_result = NotParsed

NextTest == Render

SpecTest == InitTest /\ [][NextTest]_vars

\* the frames the test loop has written since the trigger: the cursor starts
\* at 0 and moves by the frames of each callback
FramesDone == FramesWritten(0, g_test_frame_cursor, g_output_channels)

\* the blocks in which the channel ch has had a sample that is not zero
TurnsHeard(ch) ==
    {channel_now(0, f) :
        f \in {d \in FramesDone : ch \in NonSilent(0, d, g_output_channels)}}

\* the test has run to its end
TestOver == ~g_run_channel_order_test /\ g_test_frame_cursor > 0

\* C19, as stated: at every frame of the test at most the channel of the
\* current block sounds, and only in the tone part of the block; when the flag
\* is cleared every channel has sounded in its own block and in no other, and
\* the cursor has passed the last channel's block
C19_OneChannelAtATime ==
    /\ \A f \in FramesDone :
          /\ NonSilent(0, f, g_output_channels) \subseteq {channel_now(0, f)}
          /\ NonSilent(0, f, g_output_channels) # {} => within(0, f) < TestToneFrames
    /\ TestOver =>
          /\ \A ch \in 0..(g_output_channels - 1) : TurnsHeard(ch) = {ch}
          /\ g_test_frame_cursor >= g_output_channels * TestBlock

\* C20, as stated: once the test is triggered and the callbacks keep coming,
\* the flag g_run_channel_order_test becomes false, the startup wait ends, and
\* the wait of the space command ends with playback on and the control loop
\* listening again
C20_TestWaitEnds ==
    /\ g_run_channel_order_test ~> ~g_run_channel_order_test
    /\ (pc = "wait_test") ~> (pc # "wait_test")
    /\ (pc = "sp_wait") ~> (pc = "listening" /\ g_status_audio_playback)

\* C21, as stated: when the device reports 0 output channels the control
\* loop is never reached and the session ends aborted, so the program does not
\* stay in the wait for the test flag
C21_NoChannelsAborts ==
    /\ [](g_output_channels = 0 => pc # "listening")
    /\ (g_output_channels = 0) ~> (pc = "aborted")

\* C22: present_frame never decreases and never exceeds the source length; a
\* callback with playback on and no test running sets it to
\* min(present_frame + icount_frames, total_fr), and at total_fr it stays
C22_CursorClamped ==
    /\ [](present_frame >= 0 /\ present_frame <= TotalFrames)
    /\ [][/\ present_frame' >= present_frame
          /\ (RenderStep /\ ~g_run_channel_order_test /\ g_status_audio_playback) =>
                present_frame' = IF present_frame + cb'.icount_frames < TotalFrames
                                 THEN present_frame + cb'.icount_frames
                                 ELSE TotalFrames
          /\ present_frame = TotalFrames => present_frame' = TotalFrames]_vars

\* the cursor was short of the end by less than a callback, and the callback
\* with playback on has clamped it to the source length; a later callback left
\* it there
C22_Witness ==
    /\ present_frame = TotalFrames
    /\ TotalFrames % cb.icount_frames # 0
    /\ g_status_audio_playback
    /\ ~g_run_channel_order_test
    /\ cb.processed = {}
    /\ ActiveSlots # {}

\* a callback that has spawned a grain: the slot is in cb'.spawned
Spawns == RenderStep /\ cb'.spawned # 0

\* C23, as stated: while hopping is on and the sequence is not empty the
\* cursor g_sequence_position is an index of the sequence, and each spawned
\* grain gets the token at the cursor, which moves on by one modulo the length
C23_TokensCyclic ==
    /\ [](UsesSequence(g_use_grain_hopping, g_grain_sequence) =>
             g_sequence_position \in 0..(Len(g_grain_sequence) - 1))
    /\ [][(Spawns /\ UsesSequence(g_use_grain_hopping, g_grain_sequence)) =>
             /\ g_sequence_position < Len(g_grain_sequence)
             /\ object_array_grains'[cb'.spawned].target_object =
                   g_grain_sequence[g_sequence_position + 1]
             /\ g_sequence_position' =
                   (g_sequence_position + 1) % Len(g_grain_sequence)]_vars

\* C24: a grain spawned while hopping is off or the sequence is empty has the
\* broadcast target -2, and the spawn leaves g_sequence_position as it is
C24_BroadcastWithoutSequence ==
    [][(Spawns /\ ~UsesSequence(g_use_grain_hopping, g_grain_sequence)) =>
          /\ object_array_grains'[cb'.spawned].target_object = -2
          /\ g_sequence_position' = g_sequence_position]_vars

\* a callback has spawned a grain with the broadcast target while a sequence
\* was installed and hopping was off, and left the cursor where it was
C24_Witness ==
    /\ ~g_use_grain_hopping
    /\ cb.spawned # 0
    /\ cb.seq_size > 0
    /\ cb.seq_index = -1
    /\ object_array_grains[cb.spawned].target_object = -2
    /\ g_sequence_position = 0

\* C25: a grain with the silent target -1 is accumulated into no channel, and
\* a grain with the broadcast target -2 into every channel of the device, each
\* with the sample of the source channel (channel mod channels_file)
C25_SilentAndBroadcast ==
    \A r \in cb.routed :
        /\ r.target = -1 => r.channels = {}
        /\ r.target = -2 =>
              /\ r.channels = 0..(g_output_channels - 1)
              /\ DOMAIN r.sources = r.channels
              /\ \A c \in r.channels : r.sources[c] = c % channels_file

\* on a device with more channels than the source, a callback has gone
\* through a broadcast grain: a channel past the source's count took the
\* sample of a wrapped source channel
C25_Witness ==
    \E r \in cb.routed :
        /\ r.target = -2
        /\ r.frames > 0
        /\ \E c \in r.channels : c >= channels_file /\ r.sources[c] = c - channels_file

\* the slots a step has filled: free before, and active or rewritten after
SlotsFilled ==
    {i \in Slots :
        /\ ~object_array_grains[i].status_callback_grain
        /\ object_array_grains'[i] # object_array_grains[i]}

\* C27: a callback adds icount_frames to count_present_frame, calls
\* function_process_grain at most once, and does so exactly when the sum has
\* reached interval_start_frames; after the call the counter is 0 whether or
\* not a grain was spawned, so it ends every callback below the interval
C27_OneAttemptPerInterval ==
    [][RenderStep =>
          LET counted == count_present_frame + cb'.icount_frames IN
          /\ cb'.interval_start_frames =
                (frames_object_grain * g_interval_multiplier) \div 100
          /\ cb'.attempted <=> counted >= cb'.interval_start_frames
          /\ count_present_frame' = IF cb'.attempted THEN 0 ELSE counted
          /\ ~cb'.attempted => cb'.spawned = 0 /\ SlotsFilled = {}
          /\ Cardinality(SlotsFilled) <= 1
          /\ active_envelopes_grain' <= active_envelopes_grain + 1
          /\ count_present_frame' < cb'.interval_start_frames]_vars

\* the counter went over several callbacks up to a longer interval, the
\* attempt then made was refused at the concurrency limit, and the counter
\* is 0 all the same
C27_Witness ==
    /\ cb.attempted
    /\ cb.spawned = 0
    /\ cb.interval_start_frames > cb.icount_frames
    /\ active_envelopes_grain >= kMaxActiveGrains
    /\ count_present_frame = 0

\* ------------------------------------------------------------------------
\* The scheduler's arithmetic for any parameters the setters accept
\* ------------------------------------------------------------------------
\* grain lengths, density multipliers and variations the 'g', 'd' and 'p'
\* commands accept (lines 973, 1010, 1037)
ScheduleGrainLengths == {256, 257, 2048}
ScheduleMultipliers == {10, 50, 75, 200}
ScheduleVariations == {0, 10, 33, 50}

\* start and length of the second grain spawned before playback: jitter
\* below or above zero with the cursor at 0
ScheduleSecondGrains == {<<0, 1843>>, <<1000, 1000>>}

\* listening after setup without a sequence, the pool as the callbacks before
\* playback left it, and the three parameters as their commands set them
InitSchedule ==
    /\ pc = "listening"
    /\ cmds = MaxCmds
    /\ input = 0
    /\ cfg_i = 1
    /\ is_initial_setup = TRUE
    /\ unit_running = TRUE
    /\ g_output_channels = 3
    /\ garray_channel_anchor = <<1, 2, 0>>
    /\ g_original_sequence_channels = <<1, 2, 0>>
    /\ gstatus_mute_toanchors = TRUE
    /\ g_status_audio_playback = TRUE
    /\ g_use_grain_hopping = FALSE
    /\ g_grain_sequence = <<>>
    /\ g_original_sequence_string = <<>>
    /\ g_sequence_position = 0
    /\ \E second \in ScheduleSecondGrains :
          object_array_grains =
             [i \in Slots |->
                IF i = 1
                THEN [address_start_frame |-> 0, address_present_grain |-> 0,
                      frames_grain |-> 1843, gain_grain |-> 1,
                      status_callback_grain |-> TRUE, target_object |-> -2]
                ELSE IF i = 2
                THEN [address_start_frame |-> second[1], address_present_grain |-> 0,
                      frames_grain |-> second[2], gain_grain |-> 1,
                      status_callback_grain |-> TRUE, target_object |-> -2]
                ELSE ZeroGrain]
    /\ active_envelopes_grain = 2
    /\ count_present_frame = 0
    /\ frames_object_grain \in ScheduleGrainLengths
    /\ g_interval_multiplier \in ScheduleMultipliers
    /\ \E v \in ScheduleVariations :
          /\ g_travel_factor_min = 100 - v
          /\ g_travel_factor_max = 100 + v
    /\ g_jitter_range = kInitJitter
    /\ g_run_channel_order_test = FALSE
    /\ g_test_frame_cursor = 3 * 1024
    /\ present_frame = 0
    /\ cb = [NoCallback EXCEPT !.icount_frames = 1024,
                               !.interval_start_frames = 1024,
                               !.attempted = TRUE]
    /\ p_text = <<>>
    /\ p_result = NotParsed

NextSchedule == Render

SpecSchedule == InitSchedule /\ [][NextSchedule]_vars

\* frames * factor rounded to the nearest integer, the factor in hundredths
RoundFrames(frames, hundredths) == (frames * hundredths + 50) \div 100

\* the spawned grain was not cut at the end of the source
Uncut(grain) == grain.address_start_frame + grain.frames_grain < TotalFrames

\* C28, as stated: the trigger interval is the grain length times the density
\* multiplier rounded to the nearest integer, and the length of a spawned
\* grain, before it is cut at the end of the source, is the grain length times
\* the travel factor rounded to the nearest integer and at least 64
C28_RoundedToNearest ==
    [][RenderStep =>
          /\ cb'.interval_start_frames =
                RoundFrames(frames_object_grain, g_interval_multiplier)
          /\ (cb'.spawned # 0 /\ Uncut(object_array_grains'[cb'.spawned])) =>
                \E s \in {g_travel_factor_min, g_travel_factor_max} :
                    LET rounded == RoundFrames(frames_object_grain, s) IN
                    object_array_grains'[cb'.spawned].frames_grain =
                        IF rounded < kMinGrainFrames THEN kMinGrainFrames ELSE rounded]_vars

\* a grain that function_process_grain has written at some time
Spawned(i) == object_array_grains[i] # ZeroGrain

\* C29: every grain a spawn creates starts at a frame of the source, is at
\* least one frame long and ends no later than the source does, whatever the
\* cursor, the jitter draw and the travel factor; so the frames a callback
\* reads for a grain all lie inside the source
C29_GrainInsideSource ==
    /\ \A i \in Slots :
          Spawned(i) =>
            /\ object_array_grains[i].address_start_frame >= 0
            /\ object_array_grains[i].address_start_frame <= TotalFrames - 1
            /\ object_array_grains[i].frames_grain >= 1
            /\ object_array_grains[i].address_start_frame
                  + object_array_grains[i].frames_grain <= TotalFrames
            /\ object_array_grains[i].address_start_frame
                  + object_array_grains[i].address_present_grain <= TotalFrames
    /\ \A r \in cb.routed :
          object_array_grains[r.slot].address_start_frame
              + r.playhead + r.frames <= TotalFrames

\* a spawn with the cursor at the end of the source and a jitter draw above
\* zero: the grain is the last frame alone
C29_Witness ==
    /\ cb.spawned # 0
    /\ present_frame = TotalFrames
    /\ object_array_grains[cb.spawned].address_start_frame = TotalFrames - 1
    /\ object_array_grains[cb.spawned].frames_grain = 1

\* the grains a callback had in hand: active before it, or spawned by it
InHand(i) == IsActive(i) \/ (RenderStep /\ cb'.spawned = i)

\* the playhead a callback found: 0 for the grain it spawned
PlayheadFound(i) ==
    IF RenderStep /\ cb'.spawned = i THEN 0
    ELSE object_array_grains[i].address_present_grain

\* C30: a grain's playhead is 0 when it is spawned and never decreases while
\* the grain lives; every active grain has its playhead below its length when
\* a callback ends; the callback in which the playhead reaches the length
\* marks the grain inactive and takes one off active_envelopes_grain for it
C30_PlayheadAndRelease ==
    /\ [](\A i \in ActiveSlots :
            /\ object_array_grains[i].address_present_grain >= 0
            /\ object_array_grains[i].address_present_grain
                  < object_array_grains[i].frames_grain)
    /\ [][\A i \in Slots :
            /\ (RenderStep /\ cb'.spawned = i) =>
                  object_array_grains'[i].address_present_grain =
                      IF i \in cb'.processed
                      THEN IF cb'.icount_frames < object_array_grains'[i].frames_grain
                           THEN cb'.icount_frames
                           ELSE object_array_grains'[i].frames_grain
                      ELSE 0
            /\ InHand(i) =>
                  /\ object_array_grains'[i].address_present_grain >= PlayheadFound(i)
                  /\ object_array_grains'[i].address_present_grain
                        <= object_array_grains'[i].frames_grain
                  /\ object_array_grains'[i].status_callback_grain <=>
                        object_array_grains'[i].address_present_grain
                            < object_array_grains'[i].frames_grain
            /\ ~InHand(i) => object_array_grains'[i] = object_array_grains[i]]_vars
    /\ [][RenderStep =>
            active_envelopes_grain' =
                active_envelopes_grain
                + (IF cb'.spawned # 0 THEN 1 ELSE 0)
                - Cardinality({i \in Slots :
                      /\ InHand(i)
                      /\ object_array_grains'[i].address_present_grain
                            = object_array_grains'[i].frames_grain})]_vars

\* a callback has taken a grain that was already under way to its last frame
\* and released it, while another grain goes on below its length
C30_Witness ==
    /\ \E i \in cb.processed :
          /\ i # cb.spawned
          /\ ~IsActive(i)
          /\ object_array_grains[i].address_present_grain
                = object_array_grains[i].frames_grain
          /\ object_array_grains[i].frames_grain > cb.icount_frames
    /\ \E k \in ActiveSlots :
          /\ object_array_grains[k].address_present_grain > 0
          /\ object_array_grains[k].address_present_grain
                < object_array_grains[k].frames_grain

RefusedSpawn == RenderStep /\ cb'.attempted /\ cb'.spawned = 0

\* C32: a refused spawn leaves every free slot as it was, adds nothing to
\* active_envelopes_grain and leaves g_sequence_position where it was; what
\* changes in such a callback is the work of the grain loop on active grains
C32_RefusedSpawnNoOp ==
    [][RefusedSpawn =>
          /\ g_sequence_position' = g_sequence_position
          /\ \A i \in Slots :
                ~IsActive(i) => object_array_grains'[i] = object_array_grains[i]
          /\ active_envelopes_grain' =
                active_envelopes_grain
                - Cardinality({i \in Slots :
                      IsActive(i) /\ ~object_array_grains'[i].status_callback_grain})]_vars

\* a spawn refused at the concurrency limit with a sequence of several tokens
\* installed and a slot of the pool free
C32_Witness ==
    /\ cb.attempted
    /\ cb.spawned = 0
    /\ g_use_grain_hopping
    /\ Len(g_grain_sequence) > 1
    /\ g_status_audio_playback
    /\ \E i \in Slots : object_array_grains[i] = ZeroGrain

\* the product inside env_idx, before the division
EnvelopeProduct(position) == position * (kframes_envelope - 1)

\* C33: for every frame a callback takes from a grain the envelope index is
\* within 0 .. kframes_envelope - 1, is 0 at the grain's first frame and does
\* not decrease from one frame of the grain to the next; the product it is
\* divided from stays below 2^32, also for the longest grain the setters allow
C33_EnvelopeIndex ==
    /\ \A r \in cb.routed :
          LET frames_grain == object_array_grains[r.slot].frames_grain IN
          \A f \in 0..(r.frames - 1) :
              /\ env_idx(r.playhead, f, frames_grain) >= 0
              /\ env_idx(r.playhead, f, frames_grain) <= kframes_envelope - 1
              /\ r.playhead + f = 0 => env_idx(r.playhead, f, frames_grain) = 0
              /\ r.playhead + f > 0 =>
                    env_idx(r.playhead, f, frames_grain)
                        >= env_idx(r.playhead + f - 1, 0, frames_grain)
              /\ EnvelopeProduct(r.playhead + f) \div kUint16 < kUint16
    /\ EnvelopeProduct((kGrainLengthMax * (100 + kVariationMax)) \div 100)
          \div kUint16 < kUint16

\* a callback has taken a grain begun in an earlier callback to its last
\* frame, where the index is one short of the envelope's last entry
C33_Witness ==
    \E r \in cb.routed :
        /\ r.playhead > 0
        /\ r.playhead + r.frames = object_array_grains[r.slot].frames_grain
        /\ env_idx(r.playhead, r.frames - 1, object_array_grains[r.slot].frames_grain)
              = kframes_envelope - 2

\* the 'h' command's last step, after a text that was not empty
ReplaceCompletes == pc = "h_pos" /\ pc' = "listening"

\* the 'h' command with an empty line
ReplaceDeclined == pc = "listening" /\ pc' = "listening" /\ cmds' = cmds + 1

\* C34: when the 'h' command completes with a new sequence that is not empty,
\* g_sequence_position is kept if it was below the new size and is 0
\* otherwise, so it is below the size whenever the control thread is back at
\* its prompt; an empty line leaves the sequence, its text and the position
\* as they were
C34_ReplaceKeepsCursorInRange ==
    /\ [][(ReplaceCompletes /\ Len(g_grain_sequence) > 0) =>
            /\ g_sequence_position' =
                  IF g_sequence_position < Len(g_grain_sequence)
                  THEN g_sequence_position ELSE 0
            /\ g_grain_sequence' = g_grain_sequence]_vars
    /\ []((pc = "listening" /\ Len(g_grain_sequence) > 0) =>
            (g_sequence_position >= 0 /\ g_sequence_position < Len(g_grain_sequence)))
    /\ [][ReplaceDeclined =>
            /\ g_grain_sequence' = g_grain_sequence
            /\ g_original_sequence_string' = g_original_sequence_string
            /\ g_sequence_position' = g_sequence_position]_vars

\* back at the prompt after an 'h' command, with the position that spawns
\* had moved off 0 still in place
C34_Witness ==
    /\ cmds > 0
    /\ pc = "listening"
    /\ g_sequence_position > 0
    /\ g_sequence_position < Len(g_grain_sequence)

\* C35: a spawn takes the first free slot and is refused at the concurrency
\* limit, so no slot past the first kMaxActiveGrains is ever active, a free
\* slot always exists, and every refusal is one at the concurrency limit
C35_OnlyFirstSlotsActive ==
    /\ [](\A i \in Slots : i > kMaxActiveGrains => ~IsActive(i))
    /\ [](\E i \in Slots : ~IsActive(i))
    /\ [](Cardinality(ActiveSlots) <= kMaxActiveGrains)
    /\ [][RefusedSpawn => active_envelopes_grain >= kMaxActiveGrains]_vars

\* a callback has put a new grain into the first slot, which an earlier grain
\* had left, beside the grain still active in the second; the slot past the
\* limit was never written
C35_Witness ==
    /\ cb.spawned = 1
    /\ IsActive(1)
    /\ IsActive(kMaxActiveGrains)
    /\ cb.spawned # kMaxActiveGrains
    /\ object_array_grains[kMaxActiveGrains].address_present_grain > 0
    /\ \A i \in Slots : i > kMaxActiveGrains => object_array_grains[i] = ZeroGrain

\* a callback while the playback flag is off or the channel test runs
PausedCallback ==
    RenderStep /\ (~g_status_audio_playback \/ g_run_channel_order_test)

\* C36, as stated: a callback during a pause or the channel test leaves the
\* pool, active_envelopes_grain, g_sequence_position and present_frame as
\* they were, so no grain is spawned and no token consumed
C36_PausedCallbackNoOp ==
    [][PausedCallback =>
          /\ object_array_grains' = object_array_grains
          /\ active_envelopes_grain' = active_envelopes_grain
          /\ g_sequence_position' = g_sequence_position
          /\ present_frame' = present_frame
          /\ cb'.spawned = 0]_vars

\* C37, as stated: in every state the grain length, the jitter range and the
\* density multiplier are within their bounds, the two travel factors are
\* 1 - v and 1 + v for one variation v within its bounds, and the interval a
\* callback has computed is at least 1
C37_ParametersInBounds ==
    /\ frames_object_grain >= kGrainLengthMin
    /\ frames_object_grain <= kGrainLengthMax
    /\ g_jitter_range >= 0
    /\ g_jitter_range <= kJitterMax
    /\ g_interval_multiplier >= kMultiplierMin
    /\ g_interval_multiplier <= kMultiplierMax
    /\ \E v \in 0..kVariationMax :
          /\ g_travel_factor_min = 100 - v
          /\ g_travel_factor_max = 100 + v
    /\ cb.icount_frames # 0 => cb.interval_start_frames >= 1

\* the last step of function_anchor_configure
ConfigureCompletes == pc = "cfg_fin" /\ ControlStep

\* C38: when a configuration completes on a device with at least one channel,
\* each entry of garray_channel_anchor is the number typed less one when that
\* number is one of 1 .. g_output_channels and is 0 for any other number, 0
\* included; so the three entries are below g_output_channels whenever the
\* control loop listens
C38_AssignmentInRange ==
    /\ [][(ConfigureCompletes /\ g_output_channels >= 1) =>
            \A k \in 1..3 :
                /\ garray_channel_anchor'[k] >= 0
                /\ garray_channel_anchor'[k] < g_output_channels
                /\ garray_channel_anchor'[k] =
                      IF input[k] >= 1 /\ input[k] <= g_output_channels
                      THEN input[k] - 1 ELSE 0]_vars
    /\ []((pc = "listening" /\ g_output_channels >= 1) =>
            \A k \in 1..3 :
                /\ garray_channel_anchor[k] >= 0
                /\ garray_channel_anchor[k] < g_output_channels)

\* the loop listens after a live reassignment in which a number above the
\* channel count and the number 0 were typed: both entries are 0
C38_Witness ==
    /\ pc = "listening"
    /\ cmds > 0
    /\ g_original_sequence_channels = <<1, 2, 0>>
    /\ garray_channel_anchor = <<0, 0, 1>>

\* where the first '*' of a word stands, 0 when it has none
StarAt(w) ==
    IF \E k \in 1..Len(w) : w[k] = "*"
    THEN CHOOSE k \in 1..Len(w) : w[k] = "*" /\ \A j \in 1..(k - 1) : w[j] # "*"
    ELSE 0

\* the part of a word before its '*' and the part from the '*' on
TargetPart(w) == IF StarAt(w) = 0 THEN w ELSE SubSeq(w, 1, StarAt(w) - 1)
RepeatPart(w) == IF StarAt(w) = 0 THEN <<>> ELSE SubSeq(w, StarAt(w), Len(w))

\* C39, as stated: each of the six texts has the words of the sequence text in
\* number and order, each with its repeat count as it stood and each 'x' still
\* an 'x', also when a repeat count is one of the old ids
C39_TranslateKeepsCounts ==
    Translated =>
        \A option \in 1..Len(p_result.seq) :
            LET before == WordsOf(g_original_sequence_string)
                after == WordsOf(p_result.seq[option])
            IN  /\ Len(after) = Len(before)
                /\ \A k \in 1..Len(before) :
                      /\ RepeatPart(after[k]) = RepeatPart(before[k])
                      /\ TargetPart(before[k]) = <<"x">> =>
                            TargetPart(after[k]) = <<"x">>

====
